---- MODULE Spec2Model ----
(***************************************************************************)
(* Model of joshuto's src/run.rs: the main event loop (run), the chorded   *)
(* key resolver (recurse_get_keycommand), and the background operation     *)
(* tracker (process_threads, join_thread, reload_tab).                     *)
(*                                                                         *)
(* Spec        is the program as run() executes it.                        *)
(* SpecTracker drives process_threads directly, the way a unit test of the *)
(*             tracker would, interleaved with the worker threads.         *)
(***************************************************************************)
EXTENDS Integers, Sequences, FiniteSets, TLC

VARIABLES
    pc,          \* position of run(): "start", "fetch", "chord", "terminated", "init_failed"
    context,     \* JoshutoContext: exit, tabs, curr_tab_index, threads
    keymap,      \* keymap_t, the root JoshutoCommandMapping (fixed for the session)
    pressed,     \* events consumed by the resolution in progress / last finished
    nc_timeout,  \* the input wait mode set through ncurses::timeout
    workers,     \* per worker thread: its status and the content of its channel
    pt,          \* position of process_threads: pc, loop index i, range end len,
                 \* removals so far in this pass, thread being joined
    trace        \* calls to collaborators made by the last step, in order (a worker makes none)

vars == <<pc, context, keymap, pressed, nc_timeout, workers, pt, trace>>

-----------------------------------------------------------------------------
(* Bounds of the model *)

MaxTabs == 2     \* most tabs open at once
MaxOps == 2      \* most background operations spawned in a run
MaxSend == 1     \* most progress values a worker sends

-----------------------------------------------------------------------------
(* Keys, events, commands *)

CharKeys == {"a", "b"}                 \* Key::Char(_)
EscKey == "Esc"                        \* Key::Esc
OtherKeys == {"F1"}                    \* any other termion Key
Keys == CharKeys \cup {EscKey} \cup OtherKeys
NonInputEvents == {"Resize", "Tick"}   \* Event variants other than Input
RecvErr == "RecvErr"                   \* events.next() returned Err
Events == Keys \cup NonInputEvents \cup {RecvErr}

Commands == {"quit", "new_tab", "close_tab", "tab_switch", "paste", "cursor_move"}
HomeDir == "/home/user"

\* One entry of the trace: a call, its string argument, its integer argument.
Call(op, s, n) == [op |-> op, s |-> s, n |-> n]

\* A keybinding tree is the set of its leaves <<path, command>>: a path that is a
\* leaf is a SimpleKeybind, a proper prefix of a leaf is a CompositeKeybind.
IsPrefix(p, q) == Len(p) <= Len(q) /\ SubSeq(q, 1, Len(p)) = p
IsStrictPrefix(p, q) == Len(p) < Len(q) /\ IsPrefix(p, q)

KeymapA ==
    { << <<"a">>, "paste" >>,
      << <<"b", "a">>, "new_tab" >>,
      << <<"b", "b", "a">>, "close_tab" >>,
      << <<"b", "b", "b">>, "quit" >>,
      << <<"b", "F1">>, "tab_switch" >>,
      << <<"F1", "a">>, "tab_switch" >>,
      << <<"F1", "Esc">>, "cursor_move" >>,
      << <<"Esc">>, "quit" >> }

KeymapB ==
    { << <<"a", "a">>, "quit" >>,
      << <<"a", "b">>, "tab_switch" >>,
      << <<"a", "Esc", "a">>, "paste" >>,
      << <<"b">>, "cursor_move" >>,
      << <<"F1">>, "new_tab" >> }

KeymapC ==
    { << <<"a">>, "close_tab" >>,
      << <<"b">>, "paste" >> }

Keymaps == {KeymapA, KeymapB, KeymapC}

\* keymap.get(&key) at the node reached by `prefix`
Lookup(km, prefix, key) ==
    LET p == Append(prefix, key) IN
    IF \E e \in km : e[1] = p
    THEN [kind |-> "Simple", cmd |-> (CHOOSE e \in km : e[1] = p)[2]]
    ELSE IF \E e \in km : IsStrictPrefix(p, e[1])
         THEN [kind |-> "Composite", cmd |-> ""]
         ELSE [kind |-> "None", cmd |-> ""]

\* keymap.len() of the node reached by `prefix`
keymap_len(km, prefix) ==
    Cardinality({ e[1][Len(prefix) + 1] : e \in { x \in km : IsStrictPrefix(prefix, x[1]) } })

-----------------------------------------------------------------------------
(* The session state *)

NoWorker == [status |-> "none", queue |-> <<>>, sent |-> 0]
Joined == [status |-> "joined", queue |-> <<>>, sent |-> 0]
NoThread == [id |-> 0, tab_src |-> 0, tab_dest |-> 0]
Idle == [pc |-> "idle", i |-> 0, len |-> 0, removed |-> 0, thread |-> NoThread]

\* JoshutoContext::new
NewContext == [exit |-> FALSE, tabs |-> <<>>, curr_tab_index |-> 0, threads |-> <<>>]

\* ui::init_ncurses leaves input waiting in the default, bounded mode
init_ncurses == "bounded"

Init ==
    /\ pc = "start"
    /\ context = NewContext
    /\ keymap \in Keymaps
    /\ pressed = <<>>
    /\ nc_timeout = init_ncurses
    /\ workers = [id \in 1..MaxOps |-> NoWorker]
    /\ pt = Idle
    /\ trace = <<>>

\* init_context with curr_tab_index = tabs.len() in place of tabs.len() - 1
init_context_len(ctx, ok, dir) ==
    IF ok
    THEN LET c == [ctx EXCEPT !.tabs = Append(@, dir), !.curr_tab_index = Len(ctx.tabs) + 1] IN
         [context |-> c, pc |-> "fetch",
          calls |-> << Call("redraw_tab_view", "", 0), Call("refresh", "", c.curr_tab_index),
                       Call("doupdate", "", 0) >>]
    ELSE [context |-> ctx, pc |-> "init_failed",
          calls |-> << Call("end_ncurses", "", 0), Call("eprintln", "", 0),
                       Call("process::exit", "", 1) >>]

\* init_context: the first tab from the current directory, or the fatal exit
init_context(ctx, ok, dir) ==
    IF ok
    THEN LET c == [ctx EXCEPT !.tabs = Append(@, dir), !.curr_tab_index = Len(ctx.tabs)] IN
         [context |-> c, pc |-> "fetch",
          calls |-> << Call("redraw_tab_view", "", 0), Call("refresh", "", c.curr_tab_index),
                       Call("doupdate", "", 0) >>]
    ELSE [context |-> ctx, pc |-> "init_failed",
          calls |-> << Call("end_ncurses", "", 0), Call("eprintln", "", 0),
                       Call("process::exit", "", 1) >>]

-----------------------------------------------------------------------------
(* Commands: JoshutoCommand::execute, as far as the loop and the tracker see it *)

FreeWorkers(wk) == { id \in 1..MaxOps : wk[id].status = "none" }
NewOp(wk) == CHOOSE id \in FreeWorkers(wk) : \A j \in FreeWorkers(wk) : id <= j

RemoveAt(seq, k) == SubSeq(seq, 1, k - 1) \o SubSeq(seq, k + 1, Len(seq))

\* context.threads.push(FileOperationThread { tab_src, tab_dest, handle, recv })
register(ctx, id, src, dest) ==
    [ctx EXCEPT !.threads = Append(@, [id |-> id, tab_src |-> src, tab_dest |-> dest])]

\* The possible results of keycommand.execute(&mut context, &view)
ExecOutcomes(cmd, ctx, wk) ==
    LET n == Len(ctx.tabs)
        Ok(c) == [context |-> c, result |-> "Ok", spawn |-> 0]
        Fail == [context |-> ctx, result |-> "Err", spawn |-> 0]
    IN  CASE cmd = "quit" -> { Ok([ctx EXCEPT !.exit = TRUE]) }
          [] cmd = "new_tab" ->
                IF n < MaxTabs
                THEN { Ok([ctx EXCEPT !.tabs = Append(@, HomeDir), !.curr_tab_index = n]), Fail }
                ELSE { Fail }
          [] cmd = "close_tab" ->
                IF n > 1
                THEN { Ok([ctx EXCEPT !.tabs = RemoveAt(@, ctx.curr_tab_index + 1),
                                      !.curr_tab_index = IF @ > 0 THEN @ - 1 ELSE 0]) }
                ELSE { Fail }
          [] cmd = "tab_switch" -> { Ok([ctx EXCEPT !.curr_tab_index = (@ + 1) % n]) }
          [] cmd = "paste" ->
                IF FreeWorkers(wk) # {}
                THEN { [context |-> register(ctx, NewOp(wk), s, ctx.curr_tab_index),
                        result |-> "Ok", spawn |-> NewOp(wk)] : s \in 0..(n - 1) }
                     \cup { Fail }
                ELSE { Fail }
          [] OTHER -> { Ok(ctx), Fail }

Spawned(wk, id) == IF id = 0 THEN wk ELSE [wk EXCEPT ![id].status = "running"]

-----------------------------------------------------------------------------
(* recurse_get_keycommand and the dispatch in run *)

\* run, lines 169-186: the root lookup, for any kind of key
root_match(km, key) == Lookup(km, <<>>, key)

\* recurse_get_keycommand, lines 16-38: what it does before it blocks on events.next()
recurse_enter(km, prefix) ==
    << Call("timeout", "", -1), Call("display_menu", "", keymap_len(km, prefix)),
       Call("doupdate", "", 0) >>

\* the match of lines 42-59 looking up keys of any kind, as the root lookup does
recurse_match_anykey(km, prefix, ev) ==
    IF ev \in Keys THEN Lookup(km, prefix, ev) ELSE [kind |-> "None", cmd |-> ""]

\* recurse_get_keycommand, lines 42-59: the match on the event it received
recurse_match(km, prefix, ev) ==
    IF ev = EscKey THEN [kind |-> "None", cmd |-> ""]
    ELSE IF ev \in CharKeys THEN Lookup(km, prefix, ev)
    ELSE [kind |-> "None", cmd |-> ""]

\* lines 172-176 leaving the loop instead of continuing it
run_unknown_exit(ctx, key) ==
    [context |-> [ctx EXCEPT !.exit = TRUE], pc |-> "fetch",
     calls |-> << Call("wprint_err", "Unknown keycode", 0), Call("doupdate", "", 0) >>]

\* run, lines 172-176 and 181-185: no command; report and continue
run_unknown(ctx, key) ==
    [context |-> ctx, pc |-> "fetch",
     calls |-> << Call("wprint_err", "Unknown keycode", 0), Call("doupdate", "", 0) >>]

\* lines 187-197 with the failure propagated out of the loop
run_execute_fatal(o, cmd) ==
    [context |-> o.context, pc |-> IF o.result = "Err" THEN "terminated" ELSE "fetch",
     calls |-> << Call("execute", cmd, 0), Call("result", o.result, 0) >>
               \o (IF o.result = "Err" THEN << Call("wprint_err", "cause", 0) >> ELSE <<>>)
               \o << Call("doupdate", "", 0), Call("doupdate", "", 0) >>]

\* run, lines 187-197: after keycommand.execute returned outcome o
run_execute(o, cmd) ==
    [context |-> o.context, pc |-> "fetch",
     calls |-> << Call("execute", cmd, 0), Call("result", o.result, 0) >>
               \o (IF o.result = "Err" THEN << Call("wprint_err", "cause", 0) >> ELSE <<>>)
               \o << Call("doupdate", "", 0), Call("doupdate", "", 0) >>]

\* the event arm leaving the loop (a break after the message)
run_other_event_break(ctx, ev) ==
    [context |-> ctx, pc |-> "terminated",
     calls |-> << Call("wprint_err", "Unknown keycode", 0), Call("doupdate", "", 0) >>]

\* run, line 195: an event that is not an input
run_other_event(ctx, ev) ==
    [context |-> ctx, pc |-> "fetch",
     calls |-> << Call("wprint_err", "Unknown keycode", 0), Call("doupdate", "", 0) >>]

\* What follows a lookup result r, reached by the events `path`
Dispatch(path, r, pre) ==
    /\ pressed' = path
    /\ UNCHANGED <<keymap, pt>>
    /\ CASE r.kind = "Composite" ->
              /\ pc' = "chord"
              /\ nc_timeout' = "indefinite"
              /\ trace' = pre \o recurse_enter(keymap, path)
              /\ UNCHANGED <<context, workers>>
         [] r.kind = "Simple" ->
              \E o \in ExecOutcomes(r.cmd, context, workers) :
                  LET h == run_execute(o, r.cmd) IN
                  /\ context' = h.context
                  /\ pc' = h.pc
                  /\ trace' = pre \o h.calls
                  /\ workers' = Spawned(workers, o.spawn)
                  /\ UNCHANGED nc_timeout
         [] OTHER ->
              LET h == run_unknown(context, path[1]) IN
              /\ context' = h.context
              /\ pc' = h.pc
              /\ trace' = pre \o h.calls
              /\ UNCHANGED <<workers, nc_timeout>>

\* run, lines 157-161
InitContext ==
    /\ pc = "start"
    /\ \E ok \in BOOLEAN :
          LET h == init_context(context, ok, HomeDir) IN
          /\ context' = h.context
          /\ pc' = h.pc
          /\ trace' = << Call("init_ncurses", "", 0) >> \o h.calls
    /\ UNCHANGED <<keymap, pressed, nc_timeout, workers, pt>>

\* run, line 164 with exit set, and line 200
RunExit ==
    /\ pc = "fetch" /\ pt.pc = "idle"
    /\ context.exit
    /\ pc' = "terminated"
    /\ trace' = << Call("end_ncurses", "", 0) >>
    /\ UNCHANGED <<context, keymap, pressed, nc_timeout, workers, pt>>

\* run, lines 165-166: events.next() failed, the body is skipped
RunRecvErr ==
    /\ pc = "fetch" /\ pt.pc = "idle"
    /\ ~context.exit
    /\ trace' = << Call("next", RecvErr, 0) >>
    /\ pressed' = <<>>
    /\ UNCHANGED <<pc, context, keymap, nc_timeout, workers, pt>>

\* run, lines 168-194: an input event at the root
RunInput ==
    /\ pc = "fetch" /\ pt.pc = "idle"
    /\ ~context.exit
    /\ \E key \in Keys :
          Dispatch(<<key>>, root_match(keymap, key), << Call("next", key, 0) >>)

\* run, lines 195-197: any other event
RunOtherEvent ==
    /\ pc = "fetch" /\ pt.pc = "idle"
    /\ ~context.exit
    /\ \E ev \in NonInputEvents :
          LET h == run_other_event(context, ev) IN
          /\ context' = h.context
          /\ pc' = h.pc
          /\ trace' = << Call("next", ev, 0) >> \o h.calls
    /\ pressed' = <<>>
    /\ UNCHANGED <<keymap, nc_timeout, workers, pt>>

\* recurse_get_keycommand, lines 38-59, then run, lines 170-197
ChordEvent ==
    /\ pc = "chord"
    /\ \E ev \in Events :
          Dispatch(Append(pressed, ev), recurse_match(keymap, pressed, ev),
                   << Call("next", ev, 0), Call("doupdate", "", 0) >>)

-----------------------------------------------------------------------------
(* reload_tab, join_thread, process_threads *)

\* line 68 without the comparison with the active tab
refresh_always(index, ctx) == TRUE

\* reload_tab, line 68: the reloaded tab is the active one
refresh_needed(index, ctx) == index = ctx.curr_tab_index

\* reload_tab: ReloadDirList::reload succeeded (ok) or failed; an index outside the
\* tab list is an out-of-range access, which panics
reload_tab(index, ctx, ok) ==
    IF index >= Len(ctx.tabs)
    THEN [result |-> "Panic", calls |-> << Call("reload", "OutOfRange", index) >>]
    ELSE IF ~ok
    THEN [result |-> "Err", calls |-> << Call("reload", "Err", index) >>]
    ELSE [result |-> "Ok",
          calls |-> << Call("reload", "Ok", index) >>
                    \o (IF refresh_needed(index, ctx)
                        THEN << Call("refresh", "", index) >> ELSE <<>>)]

\* line 90 without the range check
src_reload_always(tab_src, ctx) == TRUE

\* join_thread, line 90
src_reload_needed(tab_src, ctx) == tab_src < Len(ctx.tabs)

\* join_thread, line 93
dest_reload_needed(tab_src, tab_dest, ctx) == tab_dest # tab_src /\ tab_dest < Len(ctx.tabs)

\* join_thread, line 83
thread_tabs(thread) ==
    << Call("tab_src", "", thread.tab_src), Call("tab_dest", "", thread.tab_dest) >>

\* join_thread with the result of handle.join() ignored: the tabs are reloaded
\* after a failed join as well
join_thread_reload_on_err(ctx, thread, joinOk, srcOk, destOk) ==
    LET skip == [result |-> "Ok", calls |-> <<>>]
        s == IF src_reload_needed(thread.tab_src, ctx)
             THEN reload_tab(thread.tab_src, ctx, srcOk) ELSE skip
        d == IF s.result # "Ok" THEN [result |-> s.result, calls |-> <<>>]
             ELSE IF dest_reload_needed(thread.tab_src, thread.tab_dest, ctx)
             THEN reload_tab(thread.tab_dest, ctx, destOk) ELSE skip
        failed == IF joinOk THEN <<>>
                  ELSE << Call("wprint_err", "join", 0), Call("queue_for_refresh", "", 0) >>
    IN  [result |-> d.result,
         calls |-> thread_tabs(thread)
                   \o << Call("join", IF joinOk THEN "Ok" ELSE "Err", thread.id) >>
                   \o failed \o s.calls \o d.calls]

\* join_thread, lines 83-98: from the result of thread.handle.join() on
join_thread(ctx, thread, joinOk, srcOk, destOk) ==
    IF ~joinOk
    THEN [result |-> "Ok",
          calls |-> thread_tabs(thread)
                    \o << Call("join", "Err", thread.id), Call("wprint_err", "join", 0),
                          Call("queue_for_refresh", "", 0) >>]
    ELSE LET skip == [result |-> "Ok", calls |-> <<>>]
             s == IF src_reload_needed(thread.tab_src, ctx)
                  THEN reload_tab(thread.tab_src, ctx, srcOk) ELSE skip
             d == IF s.result # "Ok" THEN [result |-> s.result, calls |-> <<>>]
                  ELSE IF dest_reload_needed(thread.tab_src, thread.tab_dest, ctx)
                  THEN reload_tab(thread.tab_dest, ctx, destOk) ELSE skip
         IN  [result |-> d.result,
              calls |-> thread_tabs(thread) \o << Call("join", "Ok", thread.id) >>
                        \o s.calls \o d.calls]

\* recv_timeout reporting the disconnect of a closed channel before the values
\* still queued in it
recv_timeout_closed_first(w) ==
    IF w.status # "running" THEN "Disconnected"
    ELSE IF w.queue # <<>> THEN "Ok"
    ELSE "Timeout"

\* a receive whose every Err is taken for a disconnect (Err(_) in place of
\* Err(RecvTimeoutError::Disconnected))
recv_timeout_any_err(w) ==
    IF w.queue # <<>> THEN "Ok" ELSE "Disconnected"

\* FileOperationThread::recv_timeout on the channel of worker w
recv_timeout(w) ==
    IF w.queue # <<>> THEN "Ok"
    ELSE IF w.status = "running" THEN "Timeout"
    ELSE "Disconnected"

\* swap_remove(0) in place of swap_remove(i)
swap_remove_first(seq, i) ==
    LET n == Len(seq) IN
    [removed |-> seq[1],
     rest |-> [k \in 1..(n - 1) |-> IF k = 1 THEN seq[n] ELSE seq[k]]]

\* the entry at i returned, the last entry dropped from the list (pop in place of
\* swap_remove)
swap_remove_pop(seq, i) ==
    LET n == Len(seq) IN
    [removed |-> seq[i + 1],
     rest |-> SubSeq(seq, 1, n - 1)]

\* Vec::swap_remove(i), i counted from 0
\* the element it returns and what is left
swap_remove(seq, i) ==
    LET n == Len(seq) IN
    [removed |-> seq[i + 1],
     rest |-> [k \in 1..(n - 1) |-> IF k = i + 1 THEN seq[n] ELSE seq[k]]]

\* process_threads, line 103: the next turn of the for loop, or its end
for_next(p) ==
    IF p.i + 1 < p.len THEN [p EXCEPT !.i = @ + 1] ELSE Idle

\* process_threads without the break at line 109: the for loop goes on after a join
after_join_continue(p, result) ==
    IF result = "Panic" THEN [Idle EXCEPT !.pc = "panicked"]
    ELSE IF p.i + 1 < p.len THEN [p EXCEPT !.pc = "scan", !.i = @ + 1, !.thread = NoThread]
    ELSE Idle

\* process_threads, lines 107-109: after join_thread returned
after_join(p, result) ==
    IF result = "Panic" THEN [Idle EXCEPT !.pc = "panicked"] ELSE Idle

Return(result) == << Call("return", result, 0) >>

\* a pass of process_threads starts
ProcessThreadsBegin ==
    /\ pc = "fetch" /\ pt.pc = "idle"
    /\ LET len == Len(context.threads) IN
       /\ pt' = IF len = 0 THEN Idle ELSE [Idle EXCEPT !.pc = "scan", !.len = len]
       /\ trace' = << Call("process_threads", "", len) >>
                   \o (IF len = 0 THEN Return("Ok") ELSE <<>>)
    /\ UNCHANGED <<pc, context, keymap, pressed, nc_timeout, workers>>

\* process_threads, lines 104-116: one turn of the loop, up to the call of handle.join()
ProcessThreadsRecv ==
    /\ pt.pc = "scan"
    /\ UNCHANGED <<pc, keymap, pressed, nc_timeout>>
    /\ IF pt.i >= Len(context.threads)
       THEN /\ pt' = [Idle EXCEPT !.pc = "panicked"]
            /\ trace' = << Call("recv_timeout", "OutOfRange", pt.i) >>
            /\ UNCHANGED <<context, workers>>
       ELSE LET th == context.threads[pt.i + 1]
                sr == swap_remove(context.threads, pt.i)
                r == recv_timeout(workers[th.id])
                nxt == for_next(pt)
                ret == IF nxt.pc = "idle" THEN Return("Ok") ELSE <<>>
            IN  CASE r = "Ok" ->
                       /\ workers' = [workers EXCEPT ![th.id].queue = Tail(@)]
                       /\ trace' = << Call("recv_timeout", "Ok", pt.i),
                                      Call("draw_fs_operation_progress", "",
                                           Head(workers[th.id].queue)),
                                      Call("doupdate", "", 0) >> \o ret
                       /\ pt' = nxt
                       /\ UNCHANGED context
                  [] r = "Timeout" ->
                       /\ trace' = << Call("recv_timeout", "Timeout", pt.i) >> \o ret
                       /\ pt' = nxt
                       /\ UNCHANGED <<context, workers>>
                  [] OTHER ->
                       /\ context' = [context EXCEPT !.threads = sr.rest]
                       /\ pt' = [pt EXCEPT !.pc = "join", !.thread = sr.removed,
                                           !.removed = @ + 1]
                       /\ trace' = << Call("recv_timeout", "Disconnected", pt.i),
                                      Call("swap_remove", "", pt.i),
                                      Call("werase", "", 0), Call("doupdate", "", 0) >>
                       /\ UNCHANGED workers

\* join_thread, lines 84-98, and process_threads, lines 107-109: the worker thread has
\* ended (normally or by a panic) and handle.join() returns
JoinReturn ==
    /\ pt.pc = "join"
    /\ \E joinOk \in BOOLEAN, srcOk \in BOOLEAN, destOk \in BOOLEAN :
          LET r == join_thread(context, pt.thread, joinOk, srcOk, destOk)
              nxt == after_join(pt, r.result)
          IN  /\ pt' = nxt
              /\ trace' = r.calls
                          \o (IF r.result = "Ok" THEN << Call("doupdate", "", 0) >> ELSE <<>>)
                          \o (IF nxt.pc = "idle" THEN Return(r.result) ELSE <<>>)
    /\ workers' = [workers EXCEPT ![pt.thread.id] = Joined]
    /\ UNCHANGED <<pc, context, keymap, pressed, nc_timeout>>

-----------------------------------------------------------------------------
(* The worker threads of the background operations *)

\* the worker sends one progress value
WorkerSend ==
    \E id \in DOMAIN workers :
        /\ workers[id].status = "running"
        /\ workers[id].sent < MaxSend
        /\ workers' = [workers EXCEPT ![id].queue = Append(@, workers[id].sent + 1),
                                      ![id].sent = @ + 1]
        /\ trace' = <<>>
        /\ UNCHANGED <<pc, context, keymap, pressed, nc_timeout, pt>>

\* the worker drops its sending endpoint: the channel disconnects
WorkerDrop ==
    \E id \in DOMAIN workers :
        /\ workers[id].status = "running"
        /\ workers' = [workers EXCEPT ![id].status = "dropped", ![id].sent = 0]
        /\ trace' = <<>>
        /\ UNCHANGED <<pc, context, keymap, pressed, nc_timeout, pt>>

-----------------------------------------------------------------------------
(* The tracker driven directly: commands between poll passes, no key dispatch *)

\* the contexts with n tabs, the tab at index curr active and nothing tracked
TabsOpen(n, curr) ==
    [exit |-> FALSE, tabs |-> [k \in 1..n |-> HomeDir], curr_tab_index |-> curr,
     threads |-> <<>>]

InitTracker ==
    /\ pc = "fetch"
    /\ \E n \in 1..MaxTabs : \E curr \in 0..(n - 1) : context = TabsOpen(n, curr)
    /\ keymap = KeymapC
    /\ pressed = <<>>
    /\ nc_timeout = init_ncurses
    /\ workers = [id \in 1..MaxOps |-> NoWorker]
    /\ pt = Idle
    /\ trace = <<>>

\* between two poll passes a command registers an operation: it pastes into the
\* active tab what was selected in tab tab_src, a tab that may be closed by now
Register ==
    /\ pc = "fetch" /\ pt.pc = "idle"
    /\ FreeWorkers(workers) # {}
    /\ \E src \in 0..(MaxTabs - 1) :
          /\ context' = register(context, NewOp(workers), src, context.curr_tab_index)
          /\ workers' = Spawned(workers, NewOp(workers))
          /\ trace' = << Call("execute", "paste", 0) >>
    /\ UNCHANGED <<pc, keymap, pressed, nc_timeout, pt>>

-----------------------------------------------------------------------------
(* run: nothing in the loop calls process_threads or resize_handler, and nothing  *)
(* in it reads a channel, so the worker threads' steps are invisible to it.      *)
Next ==
    \/ InitContext
    \/ RunExit
    \/ RunRecvErr
    \/ RunInput
    \/ RunOtherEvent
    \/ ChordEvent

Spec == Init /\ [][Next]_vars

NextTracker ==
    \/ Register
    \/ ProcessThreadsBegin
    \/ ProcessThreadsRecv
    \/ JoinReturn
    \/ WorkerSend
    \/ WorkerDrop

SpecTracker == InitTracker /\ [][NextTracker]_vars

\* A stream of operations: one more operation than MaxOps can be tracked at a
\* time, and a command may register an operation whenever fewer are tracked
Slots == 1..(MaxOps + 1)

InitStream ==
    /\ pc = "fetch"
    /\ context = TabsOpen(1, 0)
    /\ keymap = KeymapC
    /\ pressed = <<>>
    /\ nc_timeout = init_ncurses
    /\ workers = [id \in Slots |-> NoWorker]
    /\ pt = Idle
    /\ trace = <<>>

\* between two poll passes a command registers an operation; the handle and the
\* channel of an operation that was joined are gone, so its place is free again
RegisterNext ==
    /\ pc = "fetch" /\ pt.pc = "idle"
    /\ \E id \in DOMAIN workers :
          /\ workers[id].status \in {"none", "joined"}
          /\ \A j \in DOMAIN workers : workers[j].status \in {"none", "joined"} => id <= j
          /\ context' = register(context, id, context.curr_tab_index, context.curr_tab_index)
          /\ workers' = Spawned(workers, id)
          /\ trace' = << Call("execute", "paste", 0) >>
    /\ UNCHANGED <<pc, keymap, pressed, nc_timeout, pt>>

NextStream ==
    \/ RegisterNext
    \/ ProcessThreadsBegin
    \/ ProcessThreadsRecv
    \/ JoinReturn
    \/ WorkerDrop

\* the main loop keeps polling: a pass starts again and again, every receive
\* returns within its 100 ms, and every worker that dropped its sending endpoint
\* ends, so that handle.join() returns
SpecStream ==
    /\ InitStream /\ [][NextStream]_vars
    /\ WF_vars(ProcessThreadsBegin)
    /\ WF_vars(ProcessThreadsRecv)
    /\ WF_vars(JoinReturn)

\* The tracker with a main thread that keeps running: a pass starts again and
\* again and every receive returns within its 100 ms. Nothing is assumed of the
\* workers: one that dropped its sending endpoint need not end, and handle.join()
\* returns only when it has ended.
SpecPoll ==
    /\ InitTracker /\ [][NextTracker]_vars
    /\ WF_vars(ProcessThreadsBegin)
    /\ WF_vars(ProcessThreadsRecv)

\* join_thread alone: a pass has just removed the only tracked operation, whose
\* tab indices may both be stale, and is about to join it
InitJoin ==
    /\ pc = "fetch"
    /\ \E n \in 1..MaxTabs : \E curr \in 0..(n - 1) : context = TabsOpen(n, curr)
    /\ keymap = KeymapC
    /\ pressed = <<>>
    /\ nc_timeout = init_ncurses
    /\ workers = [id \in 1..MaxOps |->
                    IF id = 1 THEN [status |-> "dropped", queue |-> <<>>, sent |-> 0]
                    ELSE NoWorker]
    /\ \E src \in 0..MaxTabs, dest \in 0..MaxTabs :
          pt = [pc |-> "join", i |-> 0, len |-> 1, removed |-> 1,
                thread |-> [id |-> 1, tab_src |-> src, tab_dest |-> dest]]
    /\ trace = << Call("recv_timeout", "Disconnected", 0), Call("swap_remove", "", 0),
                  Call("werase", "", 0), Call("doupdate", "", 0) >>

NextJoin == JoinReturn

SpecJoin == InitJoin /\ [][NextJoin]_vars

-----------------------------------------------------------------------------
(* What the trace of the last step shows *)

Has(op) == \E k \in DOMAIN trace : trace[k].op = op
HasCall(op, str) == \E k \in DOMAIN trace : trace[k].op = op /\ trace[k].s = str
Count(op) == Cardinality({ k \in DOMAIN trace : trace[k].op = op })
Arg(op) == trace[CHOOSE k \in DOMAIN trace : trace[k].op = op].n
Reloaded(index) == \E k \in DOMAIN trace : trace[k].op = "reload" /\ trace[k].n = index

\* an iteration of the loop in run has just ended
IterationDone == pc = "fetch" /\ trace # <<>> /\ trace[1].op = "next"

\* a key resolution has just ended; pressed holds the events it consumed
ResolutionDone == IterationDone /\ pressed # <<>>

\* the command the last resolution executed
Resolved ==
    IF Has("execute") THEN trace[CHOOSE k \in DOMAIN trace : trace[k].op = "execute"].s
    ELSE "none"

\* the command of the Simple node that `path` leads to in the tree, if it leads to one
LeafCmd(km, path) ==
    IF \E e \in km : e[1] = path THEN (CHOOSE e \in km : e[1] = path)[2] ELSE "none"

\* the command a sequence of events is to resolve to: the Simple node it leads to,
\* provided every key after the first is a character key
ExpectedCmd(km, path) ==
    IF \A k \in 2..Len(path) : path[k] \in CharKeys THEN LeafCmd(km, path) ELSE "none"

TrackedCount(id) == Cardinality({ k \in DOMAIN context.threads : context.threads[k].id = id })
Joining(id) == pt.pc = "join" /\ pt.thread.id = id

-----------------------------------------------------------------------------
\* C1: every iteration of the main loop performs exactly one poll pass
\* (process_threads) over the tracked operations.
C1_PollEveryIteration == IterationDone => Count("process_threads") = 1

\* C2: every registered operation is tracked exactly once until its channel has
\* disconnected and a pass removes it, is joined exactly once and is never lost or
\* tracked again; a join makes at most one reload of the source and one of the
\* destination; a pass removes at most one operation.
C2_JoinOncePerOp ==
    /\ pt.removed <= 1
    /\ \A id \in 1..MaxOps :
          LET st == workers[id].status IN
          /\ st = "none" => TrackedCount(id) = 0 /\ ~Joining(id)
          /\ st = "running" => TrackedCount(id) = 1 /\ ~Joining(id)
          /\ st = "dropped" => TrackedCount(id) + (IF Joining(id) THEN 1 ELSE 0) = 1
          /\ st = "joined" => TrackedCount(id) = 0 /\ ~Joining(id)
    /\ Count("join") <= 1
    /\ Count("reload") <= 2 * Count("join")
    /\ Has("join") => workers[Arg("join")].status = "joined"

C2_Witness ==
    /\ \A id \in 1..MaxOps : workers[id].status = "joined"
    /\ context.threads = <<>>
    /\ Has("join") /\ Arg("join") = 1

\* C3: a successful join of an operation whose source tab index is no longer valid
\* reloads no source tab and accesses no tab out of range, and still reloads the
\* destination tab when its index is valid and differs from the source index.
C3_StaleSourceSkipped ==
    (HasCall("join", "Ok") /\ Arg("tab_src") >= Len(context.tabs)) =>
        /\ ~Reloaded(Arg("tab_src"))
        /\ ~HasCall("reload", "OutOfRange")
        /\ pt.pc # "panicked"
        /\ (Arg("tab_dest") < Len(context.tabs) /\ Arg("tab_dest") # Arg("tab_src"))
              => Reloaded(Arg("tab_dest"))

C3_Witness ==
    /\ HasCall("join", "Ok")
    /\ Arg("tab_src") >= Len(context.tabs)
    /\ Arg("tab_dest") < Len(context.tabs)
    /\ Reloaded(Arg("tab_dest"))
    /\ pt.pc = "idle"

\* C4 as claimed: a key sequence that follows a path of the tree to a Simple node
\* resolves to that node's command whatever kinds of keys label the path, and any
\* other sequence resolves to no command.
C4_AnyKeyPathResolves == ResolutionDone => Resolved = LeafCmd(keymap, pressed)

\* C4 amended: a key sequence that follows a path of the tree to a Simple node
\* resolves to that node's command when every key after the first is a character
\* key; every other sequence of events resolves to no command.
C4_CharPathResolves ==
    ResolutionDone => Resolved = ExpectedCmd(keymap, pressed)

C4_Witness ==
    /\ ResolutionDone
    /\ Len(pressed) = 3
    /\ Resolved = LeafCmd(keymap, pressed)
    /\ Resolved # "none"

\* C5: in every state where the main loop is not inside a chord, the input wait
\* mode is the bounded one.
C5_WaitModeRestored == pc \in {"fetch", "terminated"} => nc_timeout = "bounded"

\* C6: a Resize event delivered to the main loop refreshes the active tab's view
\* and is never handled as an unknown keycode.
C6_ResizeRefreshes ==
    (IterationDone /\ pressed = <<>> /\ trace[1].s = "Resize") =>
        /\ HasCall("refresh", "")
        /\ ~HasCall("wprint_err", "Unknown keycode")

\* C7: reload_tab refreshes the panel exactly when the reload succeeded and the
\* reloaded tab is the active one; no other refresh happens.
C7_RefreshIffActive ==
    /\ \A k \in DOMAIN trace :
          trace[k].op = "reload" =>
              ((trace[k].s = "Ok" /\ trace[k].n = context.curr_tab_index)
               <=> (k < Len(trace) /\ trace[k + 1].op = "refresh"
                    /\ trace[k + 1].n = trace[k].n))
    /\ \A k \in DOMAIN trace :
          trace[k].op = "refresh" => (k > 1 /\ trace[k - 1].op = "reload")

C7_Witness ==
    /\ Has("refresh")
    /\ \E k \in DOMAIN trace :
          /\ trace[k].op = "reload" /\ trace[k].s = "Ok"
          /\ trace[k].n # context.curr_tab_index
          /\ (k = Len(trace) \/ trace[k + 1].op # "refresh")

\* C8: a command that fails does not end the loop: its cause is written to the
\* bottom panel, a redraw follows and the loop is back at fetching an event; the
\* loop has ended only if the exit flag is set.
C8_CommandFailureNotFatal ==
    /\ pc = "terminated" => context.exit
    /\ \A k \in DOMAIN trace :
          (trace[k].op = "result" /\ trace[k].s = "Err") =>
              /\ pc = "fetch"
              /\ k + 2 <= Len(trace)
              /\ trace[k + 1] = Call("wprint_err", "cause", 0)
              /\ trace[k + 2].op = "doupdate"

C8_Witness == pc = "fetch" /\ HasCall("result", "Err") /\ HasCall("wprint_err", "cause")

\* C9: a resolution that yields no command executes nothing, leaves the Context
\* unchanged, writes "Unknown keycode" and leaves the loop running.
C9_UnknownKeyNoEffect ==
    [][ ( /\ trace' # <<>> /\ trace'[1].op = "next"
          /\ pressed' # <<>> /\ pc' # "chord"
          /\ ExpectedCmd(keymap, pressed') = "none" )
        => ( /\ context' = context
             /\ pc' = "fetch"
             /\ ~(\E k \in DOMAIN trace' : trace'[k].op = "execute")
             /\ \E k \in DOMAIN trace' : trace'[k] = Call("wprint_err", "Unknown keycode", 0) )
      ]_vars

C9_Witness ==
    /\ ResolutionDone
    /\ Len(pressed) >= 2
    /\ HasCall("wprint_err", "Unknown keycode")
    /\ context.threads # <<>>

\* C10: a tab reload that fails while a completed operation is reconciled is
\* written to the status panel and the poll pass does not end with an error.
C10_ReloadFailureRecovered ==
    HasCall("reload", "Err") => (Has("wprint_err") /\ ~HasCall("return", "Err"))

\* C11: a successful join reloads the source tab if its index is valid, and the
\* destination tab if its index is valid and differs from the source index,
\* whatever the source tab's reload returned; no tab is reloaded twice.
C11_BothTabsReloaded ==
    HasCall("join", "Ok") =>
        LET src == Arg("tab_src")
            dest == Arg("tab_dest")
        IN  /\ src < Len(context.tabs) => Reloaded(src)
            /\ (dest < Len(context.tabs) /\ dest # src) => Reloaded(dest)
            /\ \A j, k \in DOMAIN trace :
                  (trace[j].op = "reload" /\ trace[k].op = "reload" /\ j # k)
                      => trace[j].n # trace[k].n

\* C12: when the join of a removed operation's worker fails, the cause is written
\* to the status bar, no tab is reloaded, the operation is tracked no longer, and
\* join_thread returns Ok, so that the poll pass ends without an error.
C12_JoinFailureHandled ==
    HasCall("join", "Err") =>
        /\ HasCall("wprint_err", "join")
        /\ Count("reload") = 0 /\ Count("refresh") = 0
        /\ TrackedCount(Arg("join")) = 0
        /\ workers[Arg("join")].status = "joined"
        /\ HasCall("return", "Ok") /\ ~HasCall("return", "Err")
        /\ pt.pc = "idle"

C12_Witness ==
    /\ HasCall("join", "Err")
    /\ Arg("tab_src") < Len(context.tabs)
    /\ Arg("tab_dest") < Len(context.tabs) /\ Arg("tab_dest") # Arg("tab_src")
    /\ context.threads # <<>>

\* C13: every tracked operation whose channel has disconnected is eventually
\* removed from the tracked list and joined, whatever its place in the list and
\* whatever other operations are registered or complete in the meantime.
C13_DisconnectedEventuallyJoined ==
    \A id \in Slots :
        (workers[id].status = "dropped" /\ TrackedCount(id) = 1)
            ~> (workers[id].status = "joined")

HasIn(t, op) == \E k \in DOMAIN t : t[k].op = op
PosIn(t, op) == CHOOSE k \in DOMAIN t : t[k].op = op

C15_PassTerminates == (pt.pc # "idle") ~> (pt.pc = "idle")

\* C16: in a poll pass, an operation whose channel holds a progress value, or is
\* empty with the worker's endpoint still open, stays tracked with its handle,
\* channel and tab indices unchanged; the one whose receive times out changes
\* nothing at all: nothing is rendered and no tab or Context field changes.
C16_PolledOpKept ==
    [][ (pt.pc = "scan" /\ pt' # pt /\ pt.i < Len(context.threads)) =>
          LET th == context.threads[pt.i + 1]
              w == workers[th.id]
          IN  /\ w.queue # <<>> =>
                    /\ context' = context
                    /\ workers' = [workers EXCEPT ![th.id].queue = Tail(@)]
                    /\ pt'.pc \in {"scan", "idle"}
                    /\ HasIn(trace', "draw_fs_operation_progress")
                    /\ ~HasIn(trace', "swap_remove") /\ ~HasIn(trace', "join")
              /\ (w.queue = <<>> /\ w.status = "running") =>
                    /\ context' = context
                    /\ workers' = workers
                    /\ pt'.pc \in {"scan", "idle"}
                    /\ \A k \in DOMAIN trace' : trace'[k].op \in {"recv_timeout", "return"}
                    /\ trace'[1] = Call("recv_timeout", "Timeout", pt.i)
      ]_vars

\* a pass over two operations has ended: the first receive timed out, the second
\* yielded a value, and both are tracked still
C16_Witness ==
    /\ pt.pc = "idle"
    /\ HasCall("recv_timeout", "Ok") /\ Arg("recv_timeout") = 1
    /\ Len(context.threads) = 2
    /\ workers[context.threads[1].id].status = "running"
    /\ workers[context.threads[1].id].sent = 0
    /\ workers[context.threads[2].id].status = "running"

\* C17: the main loop ends exactly when the exit flag is set: with the flag set the
\* only step of the loop is to release the terminal and return, without fetching
\* an event or executing a command, and nothing follows the return; with the flag
\* unset every step stays inside the loop; the flag is set by a command only.
C17_ExitEndsLoop ==
    [][ /\ pc # "terminated"
        /\ context.exit => pc = "fetch"
        /\ (pc = "fetch" /\ context.exit) =>
              /\ pc' = "terminated"
              /\ trace' = << Call("end_ncurses", "", 0) >>
              /\ context' = context
        /\ (pc \in {"fetch", "chord"} /\ ~context.exit) => pc' \in {"fetch", "chord"}
        /\ pc' = "terminated" => (pc = "fetch" /\ context.exit)
        /\ (context'.exit /\ ~context.exit) => (HasIn(trace', "execute") /\ pc' = "fetch")
      ]_vars

\* the loop has returned after a quit reached through a chord
C17_Witness ==
    /\ pc = "terminated"
    /\ context.exit
    /\ trace = << Call("end_ncurses", "", 0) >>
    /\ Len(pressed) >= 2

\* C18: initialization either succeeds, leaving one more tab in the tab list and
\* the active tab index at that tab, and only then is the loop entered; or it
\* fails, and then the terminal is restored, the cause printed and the process
\* ended with status 1, in this order, the Context is untouched, and nothing
\* follows: no event is fetched and no command executed.
C18_InitOrExit ==
    [][ /\ pc # "init_failed"
        /\ pc = "start" =>
              \/ /\ pc' = "fetch"
                 /\ Len(context'.tabs) = Len(context.tabs) + 1
                 /\ context'.curr_tab_index = Len(context'.tabs) - 1
                 /\ context'.curr_tab_index \in 0..(Len(context'.tabs) - 1)
                 /\ ~HasIn(trace', "next") /\ ~HasIn(trace', "execute")
                 /\ ~HasIn(trace', "end_ncurses") /\ ~HasIn(trace', "process::exit")
              \/ /\ pc' = "init_failed"
                 /\ context' = context
                 /\ trace' = << Call("init_ncurses", "", 0), Call("end_ncurses", "", 0),
                                Call("eprintln", "", 0), Call("process::exit", "", 1) >>
        /\ (HasIn(trace', "next") \/ HasIn(trace', "execute")) =>
              /\ pc \in {"fetch", "chord"}
              /\ context.curr_tab_index < Len(context.tabs)
      ]_vars

\* initialization has failed and the process is gone
C18_Witness ==
    /\ pc = "init_failed"
    /\ HasCall("process::exit", "")
    /\ context.tabs = <<>>

\* C19: process_threads never reads or removes an entry of the tracked list out of
\* range: in every turn of its loop the index is smaller than the list's current
\* length, although the range was fixed when the pass started and a removal
\* shortens the list.
C19_IndexInRange ==
    /\ pt.pc = "scan" => (pt.i < Len(context.threads) /\ pt.len = Len(context.threads))
    /\ pt.pc = "join" => pt.i < pt.len /\ Len(context.threads) = pt.len - 1
    /\ ~HasCall("recv_timeout", "OutOfRange")
    /\ Has("swap_remove") => Arg("swap_remove") < pt.len
    /\ pt.pc # "panicked"

\* the last entry of a list of MaxOps entries has been removed after a first
\* entry that stays
C19_Witness ==
    /\ pt.pc = "join"
    /\ pt.len = MaxOps
    /\ Has("swap_remove") /\ Arg("swap_remove") = pt.len - 1
    /\ Len(context.threads) = pt.len - 1

\* how often the entry e occurs in the list seq
Occ(seq, e) == Cardinality({ k \in DOMAIN seq : seq[k] = e })

\* a step taken while a poll pass is under way, or the step of an empty pass
InPass == pt.pc # "idle" \/ pt'.pc # "idle" \/ HasIn(trace', "process_threads")

\* C20: a poll pass never adds an operation and removes at most one: a step of
\* the pass leaves the tracked list as it is or removes the one entry that is
\* joined next, every other entry staying in the list once, with its handle and
\* tab indices, whatever its position; and the pass never changes the tabs, the
\* active tab index or the exit flag.
C20_PassFrame ==
    [][ InPass =>
          /\ context'.tabs = context.tabs
          /\ context'.curr_tab_index = context.curr_tab_index
          /\ context'.exit = context.exit
          /\ \/ context'.threads = context.threads
             \/ /\ pt.pc = "scan" /\ pt'.pc = "join"
                /\ pt.removed = 0 /\ pt'.removed = 1
                /\ Len(context'.threads) = Len(context.threads) - 1
                /\ \A k \in DOMAIN context.threads :
                      LET e == context.threads[k] IN
                      Occ(context'.threads, e)
                          = Occ(context.threads, e) - (IF e = pt'.thread THEN 1 ELSE 0)
                /\ \A k \in DOMAIN context'.threads :
                      Occ(context.threads, context'.threads[k]) >= 1
          /\ pt.pc = "join" => (pt'.pc \in {"join", "idle"} /\ context'.threads = context.threads)
          /\ pt'.removed <= 1
      ]_vars

\* the first of two operations has been removed and the second, with other tab
\* indices, has taken its place
C20_Witness ==
    /\ pt.pc = "join"
    /\ Has("swap_remove") /\ Arg("swap_remove") = 0
    /\ Len(context.threads) = 1
    /\ context.threads[1].id # pt.thread.id
    /\ context.threads[1].tab_src # pt.thread.tab_src

====
